---------------------------- MODULE Spec2Model ----------------------------
(***************************************************************************)
(* A model of the evdi GEM buffer-object manager (module/evdi_gem.c):      *)
(* object creation, page materialisation, kernel mapping, page-fault       *)
(* resolution, PRIME import and final teardown.                            *)
(*                                                                         *)
(* Kernel resources the driver acquires from its collaborators (shmem page *)
(* arrays, kernel mappings, dma-buf attachments, device references) are    *)
(* kept in ledgers beside the driver's own fields, so that what the driver *)
(* forgets (an overwritten pointer) is still counted.                      *)
(***************************************************************************)
EXTENDS Integers, Sequences, FiniteSets

(* ------------------------------ bounds --------------------------------- *)

\* number of buffer-object slots (and of handle-table slots)
MaxObjs == 1
\* cap on the kernel mappings one object may have outstanding at once
MaxMaps == 2

Objs == 1..MaxObjs
Handles == 1..MaxObjs
NoObj == 0

VARIABLES
  objs,     \* Objs -> struct evdi_gem_object plus its resource ledger
  handles,  \* Handles -> object the handle names, or NoObj
  foreign,  \* ledger of the device / dma-buf resources held by the driver
  calls,    \* collaborator primitives invoked by the most recent handler
  last,     \* the most recent handler: its name, arguments, result, and
            \* the state it started from
  pc,       \* per execution context: position inside its handler
  loc,      \* per execution context: the handler's local variables
  mutex     \* dev->struct_mutex: the context holding it, or 0

vars == <<objs, handles, foreign, calls, last, pc, loc, mutex>>

(* --------------------------- data structures --------------------------- *)

\* struct evdi_gem_object right after kzalloc (all fields zero), and the
\* value of a slot that holds no object.
BlankObj ==
  [ mem           |-> FALSE,   \* kzalloc'ed and not kfree'd
    base          |-> FALSE,   \* drm_gem_object_init done, not released
    refcount      |-> 0,       \* base.refcount
    handle_count  |-> 0,       \* base.handle_count
    pages         |-> "NULL",  \* obj->pages: "NULL", "shmem" or "view"
    vmapping      |-> "NULL",  \* obj->vmapping: "NULL" or "addr"
    import_attach |-> FALSE,   \* base.import_attach != NULL
    sg            |-> FALSE,   \* obj->sg != NULL
    vma_node      |-> FALSE,   \* mmap offset token allocated
    pagesOut      |-> 0,       \* ledger: page arrays got from drm_gem_get_pages
    viewOut       |-> 0,       \* ledger: arrays got from drm_malloc_ab
    kmapOut       |-> 0,       \* ledger: kernel mappings established
    teardowns     |-> 0 ]      \* times evdi_gem_free_object ran on it

ForeignZero == [ devRefs |-> 0, attached |-> 0, bufRefs |-> 0, sgMapped |-> 0 ]

EmptyWorld ==
  [ objs    |-> [o \in Objs |-> BlankObj],
    handles |-> [h \in Handles |-> NoObj],
    foreign |-> ForeignZero,
    calls   |-> << >> ]

\* Record one invocation of a collaborator primitive; arg says whether the
\* resource it was handed was present ("ptr") or absent ("NULL").
Call(w, prim, arg) == [w EXCEPT !.calls = Append(@, <<prim, arg>>)]

Min(S) == CHOOSE x \in S : \A y \in S : x <= y

FreeSlots(w) == {o \in Objs : ~w.objs[o].mem}
FreeHandles(w) == {h \in Handles : w.handles[h] = NoObj}

\* handle values a caller may pass; 0 never names an object
HandleArgs == 0..MaxObjs

\* drm_gem_object_lookup: the object a handle names, or NULL
drm_gem_object_lookup(w, handle) ==
  IF handle \in Handles THEN w.handles[handle] ELSE NoObj


(* -------------------- 4.2 page pool: get / put pages ------------------- *)

\* evdi_gem_get_pages without its test of obj->pages
get_pages_unchecked(w, o, allocOk) ==
  LET w1 == Call(w, "drm_gem_get_pages", "ptr")
  IN  IF ~allocOk
      THEN [w |-> w1, ret |-> "-ENOMEM"]
      ELSE [w   |-> [w1 EXCEPT !.objs[o].pages = "shmem",
                               !.objs[o].pagesOut = @ + 1],
            ret |-> "0"]

\* evdi_gem_get_pages: allocOk is whether drm_gem_get_pages succeeds.
evdi_gem_get_pages(w, o, allocOk) ==
  IF w.objs[o].pages # "NULL"
  THEN [w |-> w, ret |-> "0"]
  ELSE LET w1 == Call(w, "drm_gem_get_pages", "ptr")
       IN  IF ~allocOk
           THEN [w |-> w1, ret |-> "-ENOMEM"]
           ELSE [w   |-> [w1 EXCEPT !.objs[o].pages = "shmem",
                                    !.objs[o].pagesOut = @ + 1],
                 ret |-> "0"]

\* evdi_gem_put_pages without its import branch
put_pages_always_local(w, o) ==
  [Call(w, "drm_gem_put_pages",
        IF w.objs[o].pages = "NULL" THEN "NULL" ELSE "ptr") EXCEPT
     !.objs[o].pagesOut = IF w.objs[o].pages = "shmem" THEN @ - 1 ELSE @,
     !.objs[o].viewOut = IF w.objs[o].pages = "view" THEN @ - 1 ELSE @,
     !.objs[o].pages = "NULL"]

\* evdi_gem_put_pages: no test of obj->pages; the release primitive is
\* handed whatever the field holds.
evdi_gem_put_pages(w, o) ==
  LET obj == w.objs[o]
      arg == IF obj.pages = "NULL" THEN "NULL" ELSE "ptr"
  IN  IF obj.import_attach
      THEN [Call(w, "drm_free_large", arg) EXCEPT
              !.objs[o].viewOut = IF obj.pages = "view" THEN @ - 1 ELSE @,
              !.objs[o].pages = "NULL"]
      ELSE [Call(w, "drm_gem_put_pages", arg) EXCEPT
              !.objs[o].pagesOut = IF obj.pages = "shmem" THEN @ - 1 ELSE @,
              !.objs[o].pages = "NULL"]

(* ------------------- 4.3 mapping manager: vmap / vunmap ---------------- *)

\* evdi_gem_vmap: obj->vmapping is assigned the primitive's result, whatever
\* it held before.
evdi_gem_vmap(w, o, allocOk, mapOk) ==
  IF w.objs[o].import_attach
  THEN LET w1 == Call(w, "dma_buf_vmap", "ptr")
       IN  IF mapOk
           THEN [w   |-> [w1 EXCEPT !.objs[o].vmapping = "addr",
                                    !.objs[o].kmapOut = @ + 1],
                 ret |-> "0"]
           ELSE [w   |-> [w1 EXCEPT !.objs[o].vmapping = "NULL"],
                 ret |-> "-ENOMEM"]
  ELSE LET g == evdi_gem_get_pages(w, o, allocOk)
       IN  IF g.ret # "0"
           THEN g
           ELSE LET w1 == Call(g.w, "vmap", "ptr")
                IN  IF mapOk
                    THEN [w   |-> [w1 EXCEPT !.objs[o].vmapping = "addr",
                                             !.objs[o].kmapOut = @ + 1],
                          ret |-> "0"]
                    ELSE [w   |-> [w1 EXCEPT !.objs[o].vmapping = "NULL"],
                          ret |-> "-ENOMEM"]

\* evdi_gem_vunmap
evdi_gem_vunmap(w, o) ==
  LET obj == w.objs[o]
  IN  IF obj.import_attach
      THEN [Call(w, "dma_buf_vunmap",
                 IF obj.vmapping = "NULL" THEN "NULL" ELSE "ptr") EXCEPT
              !.objs[o].kmapOut = IF obj.vmapping # "NULL" THEN @ - 1 ELSE @,
              !.objs[o].vmapping = "NULL"]
      ELSE LET w1 == IF obj.vmapping # "NULL"
                     THEN [Call(w, "vunmap", "ptr") EXCEPT
                             !.objs[o].kmapOut = @ - 1,
                             !.objs[o].vmapping = "NULL"]
                     ELSE w
           IN  evdi_gem_put_pages(w1, o)

(* ----------------------- 4.6 final teardown ---------------------------- *)

\* the import release with the device reference dropped first
release_import_device_first(w, o) ==
  LET w0 == [Call(w, "put_device", "ptr") EXCEPT !.foreign.devRefs = @ - 1]
      w1 == IF w0.objs[o].sg
            THEN [Call(w0, "dma_buf_unmap_attachment", "ptr") EXCEPT
                    !.foreign.sgMapped = @ - 1]
            ELSE w0
      w2 == [Call(w1, "dma_buf_detach", "ptr") EXCEPT !.foreign.attached = @ - 1]
  IN  [Call(w2, "dma_buf_put", "ptr") EXCEPT !.foreign.bufRefs = @ - 1]

\* drm_prime_gem_destroy(gem_obj, obj->sg) followed by put_device, as called
\* from evdi_gem_free_object.
release_import(w, o) ==
  LET w1 == IF w.objs[o].sg
            THEN [Call(w, "dma_buf_unmap_attachment", "ptr") EXCEPT
                    !.foreign.sgMapped = @ - 1]
            ELSE w
      w2 == [Call(w1, "dma_buf_detach", "ptr") EXCEPT !.foreign.attached = @ - 1]
      w3 == [Call(w2, "dma_buf_put", "ptr") EXCEPT !.foreign.bufRefs = @ - 1]
  IN  [Call(w3, "put_device", "ptr") EXCEPT !.foreign.devRefs = @ - 1]

\* evdi_gem_free_object that releases the mmap offset token first
free_object_token_first(w, o) ==
  LET w0 == [Call(w, "drm_gem_free_mmap_offset", "ptr") EXCEPT
               !.objs[o].vma_node = FALSE,
               !.objs[o].teardowns = @ + 1]
      w1 == IF w0.objs[o].vmapping # "NULL" THEN evdi_gem_vunmap(w0, o) ELSE w0
      w2 == IF w1.objs[o].import_attach THEN release_import(w1, o) ELSE w1
  IN  IF w2.objs[o].pages # "NULL" THEN evdi_gem_put_pages(w2, o) ELSE w2

\* evdi_gem_free_object
evdi_gem_free_object(w, o) ==
  LET w1 == IF w.objs[o].vmapping # "NULL" THEN evdi_gem_vunmap(w, o) ELSE w
      w2 == IF w1.objs[o].import_attach THEN release_import(w1, o) ELSE w1
      w3 == IF w2.objs[o].pages # "NULL" THEN evdi_gem_put_pages(w2, o) ELSE w2
  IN  [Call(w3, "drm_gem_free_mmap_offset", "ptr") EXCEPT
         !.objs[o].vma_node = FALSE,
         !.objs[o].teardowns = @ + 1]

\* drm_gem_object_unreference: drop one reference; the drop to zero calls the
\* driver's gem_free_object hook.
drm_gem_object_unreference(w, o) ==
  LET w1 == [w EXCEPT !.objs[o].refcount = @ - 1]
  IN  IF w1.objs[o].refcount = 0 THEN evdi_gem_free_object(w1, o) ELSE w1

(* ----------------------- 4.1 allocate / create ------------------------- *)

CreateFailPoints == {"none", "kzalloc", "init", "handle"}

\* evdi_gem_alloc_object: fail names the step that fails, if any.
evdi_gem_alloc_object(w, fail) ==
  LET w1 == Call(w, "kzalloc", "ptr")
      o  == Min(FreeSlots(w))
  IN  IF fail = "kzalloc"
      THEN [w |-> w1, obj |-> NoObj]
      ELSE LET w2 == Call([w1 EXCEPT !.objs[o] = [BlankObj EXCEPT !.mem = TRUE]],
                          "drm_gem_object_init", "ptr")
           IN  IF fail = "init"
               THEN [w   |-> [Call(w2, "kfree", "ptr") EXCEPT !.objs[o] = BlankObj],
                     obj |-> NoObj]
               ELSE [w   |-> [w2 EXCEPT !.objs[o].base = TRUE,
                                        !.objs[o].refcount = 1],
                     obj |-> o]

\* evdi_gem_create that keeps its own reference after registering the handle
create_keeps_reference(w, fail) ==
  LET a == evdi_gem_alloc_object(w, fail)
      o == a.obj
  IN  IF o = NoObj
      THEN [w |-> a.w, ret |-> "-ENOMEM", handle |-> 0]
      ELSE LET w1 == Call(a.w, "drm_gem_handle_create", "ptr")
           IN  IF fail = "handle"
               THEN [w      |-> [Call(Call(w1, "drm_gem_object_release", "ptr"),
                                      "kfree", "ptr")
                                   EXCEPT !.objs[o] = BlankObj],
                     ret    |-> "-ENOMEM",
                     handle |-> 0]
               ELSE LET h == Min(FreeHandles(w1))
                    IN  [w      |-> [w1 EXCEPT !.handles[h] = o,
                                               !.objs[o].handle_count = @ + 1,
                                               !.objs[o].refcount = @ + 1],
                         ret    |-> "0",
                         handle |-> h]

\* evdi_gem_create
evdi_gem_create(w, fail) ==
  LET a == evdi_gem_alloc_object(w, fail)
      o == a.obj
  IN  IF o = NoObj
      THEN [w |-> a.w, ret |-> "-ENOMEM", handle |-> 0]
      ELSE LET w1 == Call(a.w, "drm_gem_handle_create", "ptr")
           IN  IF fail = "handle"
               THEN [w      |-> [Call(Call(w1, "drm_gem_object_release", "ptr"),
                                      "kfree", "ptr")
                                   EXCEPT !.objs[o] = BlankObj],
                     ret    |-> "-ENOMEM",
                     handle |-> 0]
               ELSE LET h  == Min(FreeHandles(w1))
                        w2 == [w1 EXCEPT !.handles[h] = o,
                                         !.objs[o].handle_count = @ + 1,
                                         !.objs[o].refcount = @ + 1]
                    IN  [w      |-> drm_gem_object_unreference(
                                      Call(w2, "drm_gem_object_unreference", "ptr"), o),
                         ret    |-> "0",
                         handle |-> h]

(* ----------------------- 4.3 fault resolution -------------------------- *)

\* what vm_insert_page may hand back
InsertResults == {"0", "-EAGAIN", "-ERESTARTSYS", "-ENOMEM", "-EFAULT", "-EBUSY"}

\* evdi_gem_fault whose switch lacks the -ERESTARTSYS label
fault_without_restartsys(w, o, ins) ==
  IF w.objs[o].pages = "NULL"
  THEN [w |-> w, ret |-> "VM_FAULT_SIGBUS"]
  ELSE [w   |-> Call(w, "vm_insert_page", "ptr"),
        ret |-> CASE ins \in {"-EAGAIN", "0"} -> "VM_FAULT_NOPAGE"
                  [] ins = "-ENOMEM" -> "VM_FAULT_OOM"
                  [] OTHER -> "VM_FAULT_SIGBUS"]

\* evdi_gem_fault: ins is vm_insert_page's result.
evdi_gem_fault(w, o, ins) ==
  IF w.objs[o].pages = "NULL"
  THEN [w |-> w, ret |-> "VM_FAULT_SIGBUS"]
  ELSE [w   |-> Call(w, "vm_insert_page", "ptr"),
        ret |-> CASE ins \in {"-EAGAIN", "0", "-ERESTARTSYS"} -> "VM_FAULT_NOPAGE"
                  [] ins = "-ENOMEM" -> "VM_FAULT_OOM"
                  [] OTHER -> "VM_FAULT_SIGBUS"]

(* ----------------------- 4.4 user mmap setup --------------------------- *)

\* evdi_gem_mmap whose page-acquisition failure jumps to unlock, not to out
mmap_error_skips_unreference(w, handle, allocOk, offOk) ==
  LET w0 == Call(Call(w, "mutex_lock", "ptr"), "drm_gem_object_lookup", "ptr")
      o  == drm_gem_object_lookup(w0, handle)
  IN  IF o = NoObj
      THEN [w |-> Call(w0, "mutex_unlock", "ptr"), ret |-> "-ENOENT"]
      ELSE LET w1 == [w0 EXCEPT !.objs[o].refcount = @ + 1]
               g  == evdi_gem_get_pages(w1, o, allocOk)
           IN  IF g.ret # "0"
               THEN [w |-> Call(g.w, "mutex_unlock", "ptr"), ret |-> g.ret]
               ELSE LET w2 == Call(g.w, "drm_gem_create_mmap_offset", "ptr")
                        r  == IF offOk
                              THEN [w |-> [w2 EXCEPT !.objs[o].vma_node = TRUE],
                                    ret |-> "0"]
                              ELSE [w |-> w2, ret |-> "-ENOSPC"]
                        w3 == drm_gem_object_unreference(
                                Call(r.w, "drm_gem_object_unreference", "ptr"), o)
                    IN  [w |-> Call(w3, "mutex_unlock", "ptr"), ret |-> r.ret]

\* evdi_gem_mmap: allocOk / offOk are whether drm_gem_get_pages and
\* drm_gem_create_mmap_offset succeed.
evdi_gem_mmap(w, handle, allocOk, offOk) ==
  LET w0 == Call(Call(w, "mutex_lock", "ptr"), "drm_gem_object_lookup", "ptr")
      o  == drm_gem_object_lookup(w0, handle)
  IN  IF o = NoObj
      THEN [w |-> Call(w0, "mutex_unlock", "ptr"), ret |-> "-ENOENT"]
      ELSE LET w1 == [w0 EXCEPT !.objs[o].refcount = @ + 1]
               g  == evdi_gem_get_pages(w1, o, allocOk)
               r  == IF g.ret # "0"
                     THEN g
                     ELSE LET w2 == Call(g.w, "drm_gem_create_mmap_offset", "ptr")
                          IN  IF offOk
                              THEN [w |-> [w2 EXCEPT !.objs[o].vma_node = TRUE],
                                    ret |-> "0"]
                              ELSE [w |-> w2, ret |-> "-ENOSPC"]
               w3 == drm_gem_object_unreference(
                       Call(r.w, "drm_gem_object_unreference", "ptr"), o)
           IN  [w |-> Call(w3, "mutex_unlock", "ptr"), ret |-> r.ret]

(* ----------------------- 4.5 import bridge ----------------------------- *)

ImportFailPoints == {"none", "attach", "map", "kzalloc", "init", "pages"}

\* evdi_prime_create: the object it constructs is returned through *obj_p
\* only on success.
evdi_prime_create(w, fail) ==
  LET a == evdi_gem_alloc_object(w, fail)
      o == a.obj
  IN  IF o = NoObj
      THEN [w |-> a.w, ret |-> "-ENOMEM", obj |-> NoObj]
      ELSE LET w1 == Call([a.w EXCEPT !.objs[o].sg = TRUE], "drm_malloc_ab", "ptr")
           IN  IF fail = "pages"
               THEN [w |-> w1, ret |-> "-ENOMEM", obj |-> NoObj]
               ELSE [w   |-> Call([w1 EXCEPT !.objs[o].pages = "view",
                                             !.objs[o].viewOut = @ + 1],
                                  "drm_prime_sg_to_page_addr_arrays", "ptr"),
                     ret |-> "0",
                     obj |-> o]

\* the unwind labels with the device reference dropped before the detach
import_unwind_device_first(w, fromUnmap) ==
  LET w1 == IF fromUnmap
            THEN [Call(w, "dma_buf_unmap_attachment", "ptr") EXCEPT
                    !.foreign.sgMapped = @ - 1]
            ELSE w
      w2 == [Call(w1, "put_device", "ptr") EXCEPT !.foreign.devRefs = @ - 1]
      w3 == [Call(w2, "dma_buf_detach", "ptr") EXCEPT !.foreign.attached = @ - 1]
  IN  [Call(w3, "dma_buf_put", "ptr") EXCEPT !.foreign.bufRefs = @ - 1]

\* the fail_unmap / fail_detach labels of evdi_gem_prime_import
import_unwind(w, fromUnmap) ==
  LET w1 == IF fromUnmap
            THEN [Call(w, "dma_buf_unmap_attachment", "ptr") EXCEPT
                    !.foreign.sgMapped = @ - 1]
            ELSE w
      w2 == [Call(w1, "dma_buf_detach", "ptr") EXCEPT !.foreign.attached = @ - 1]
      w3 == [Call(w2, "dma_buf_put", "ptr") EXCEPT !.foreign.bufRefs = @ - 1]
  IN  [Call(w3, "put_device", "ptr") EXCEPT !.foreign.devRefs = @ - 1]

\* evdi_gem_prime_import
evdi_gem_prime_import(w, fail) ==
  LET w1 == [Call(w, "get_device", "ptr") EXCEPT !.foreign.devRefs = @ + 1]
      w2 == Call(w1, "dma_buf_attach", "ptr")
  IN  IF fail = "attach"
      THEN [w   |-> [Call(w2, "put_device", "ptr") EXCEPT !.foreign.devRefs = @ - 1],
            ret |-> "-EINVAL", obj |-> NoObj]
      ELSE LET w3 == [Call([w2 EXCEPT !.foreign.attached = @ + 1],
                           "get_dma_buf", "ptr") EXCEPT !.foreign.bufRefs = @ + 1]
               w4 == Call(w3, "dma_buf_map_attachment", "ptr")
           IN  IF fail = "map"
               THEN [w |-> import_unwind(w4, FALSE), ret |-> "-EIO", obj |-> NoObj]
               ELSE LET c == evdi_prime_create(
                               [w4 EXCEPT !.foreign.sgMapped = @ + 1], fail)
                    IN  IF c.ret # "0"
                        THEN [w |-> import_unwind(c.w, TRUE), ret |-> c.ret,
                              obj |-> NoObj]
                        ELSE [w   |-> [c.w EXCEPT !.objs[c.obj].import_attach = TRUE],
                              ret |-> "0",
                              obj |-> c.obj]


(* ------------- unsigned arithmetic of struct drm_mode_create_dumb ------- *)
(* A __u32 is four base-256 digits and a __u64 eight, least significant    *)
(* first, so that a product can be taken both exactly and as C computes it *)
(* (truncated to the width of its operands).                               *)

Byte == 2 ^ 8

\* the __u32 holding a number below 2^31
U32Of(n) == [i \in 1..4 |-> (n \div (Byte ^ (i - 1))) % Byte]

\* zero-extension to len digits
Widen(a, len) == [i \in 1..len |-> IF i <= Len(a) THEN a[i] ELSE 0]

RECURSIVE ColSum(_, _, _, _)
\* sum of a[i] * b[k + 1 - i] over the i from which both digits exist
ColSum(a, b, k, i) ==
  IF i > Len(a) THEN 0
  ELSE (IF k + 1 - i \in 1..Len(b) THEN a[i] * b[k + 1 - i] ELSE 0)
       + ColSum(a, b, k, i + 1)

RECURSIVE ColTotal(_, _, _)
\* column k of the schoolbook product with the carry from the columns below
ColTotal(a, b, k) ==
  IF k = 0 THEN 0
  ELSE ColSum(a, b, k, 1) + (ColTotal(a, b, k - 1) \div Byte)

\* a * b kept to len digits: exact when len = Len(a) + Len(b), and the
\* product modulo 2^(8 len) otherwise
Mul(a, b, len) == [k \in 1..len |-> ColTotal(a, b, k) % Byte]

RECURSIVE AddTotal(_, _, _)
\* digit k of a plus the carry into it, when c is added at digit 1
AddTotal(a, c, k) ==
  IF k = 0 THEN c * Byte
  ELSE a[k] + (AddTotal(a, c, k - 1) \div Byte)

\* a + c modulo 2^(8 Len(a)), for a small c
AddSmall(a, c) == [k \in 1..Len(a) |-> AddTotal(a, c, k) % Byte]

RECURSIVE DivRem(_, _, _)
\* long division by a small d: what is left of digits Len(a)..k
DivRem(a, d, k) ==
  IF k > Len(a) THEN 0
  ELSE (DivRem(a, d, k + 1) * Byte + a[k]) % d

\* a divided by a small d, rounded down
DivSmall(a, d) ==
  [k \in 1..Len(a) |-> (DivRem(a, d, k + 1) * Byte + a[k]) \div d]

\* DIV_ROUND_UP(n, d) on a __u32: ((n) + (d) - 1) / (d), in 32-bit arithmetic
DIV_ROUND_UP(n, d) == DivSmall(AddSmall(n, d - 1), d)

\* the creation requests tried
Widths == {U32Of(100), U32Of(65536)}
Bpps == {U32Of(32), U32Of(15), <<255, 255, 255, 255>>}
Heights == {U32Of(50), U32Of(65536)}

\* evdi_dumb_create: args is (width, bpp, height); pitch and size are
\* written back into args before evdi_gem_create is called.
\* (evdi_gem_create rounds its own copy of size up to a page; the object's
\* size takes no part in the lifecycle modelled here and is not kept.)
evdi_dumb_create(w, args, fail) ==
  LET pitch == Mul(args.width, DIV_ROUND_UP(args.bpp, 8), 4)
      size  == Widen(Mul(pitch, args.height, 4), 8)
      c     == evdi_gem_create(w, fail)
  IN  [w |-> c.w, ret |-> c.ret,
       out |-> [pitch |-> pitch, size |-> size, handle |-> c.handle]]

(* ----------------------- sequential specification ---------------------- *)
(* Each handler runs to completion before the next one starts.             *)

Ctx == 1..2

\* a context's local variables while it runs no handler
IdleLoc == [caller |-> "none", handle |-> 0, obj |-> NoObj,
            pages |-> "NULL", ret |-> "0"]

\* the state a handler starts from (its own call record empty)
World == [objs |-> objs, handles |-> handles, foreign |-> foreign, calls |-> << >>]

HasHandle(o) == \E h \in Handles : handles[h] = o

Commit(w, rec) ==
  /\ objs' = w.objs
  /\ handles' = w.handles
  /\ foreign' = w.foreign
  /\ calls' = w.calls
  /\ last' = rec
  /\ UNCHANGED <<pc, loc, mutex>>

Init ==
  /\ objs = EmptyWorld.objs
  /\ handles = EmptyWorld.handles
  /\ foreign = EmptyWorld.foreign
  /\ calls = << >>
  /\ last = [op |-> "none", obj |-> NoObj, ret |-> "0", in |-> << >>,
             out |-> << >>, pre |-> EmptyWorld]
  /\ pc = [c \in Ctx |-> "idle"]
  /\ loc = [c \in Ctx |-> IdleLoc]
  /\ mutex = 0

\* DRM_IOCTL_MODE_CREATE_DUMB
DumbCreate ==
  \E width \in Widths, bpp \in Bpps, height \in Heights, fail \in CreateFailPoints :
    /\ FreeSlots(World) # {}
    /\ \E r \in {evdi_dumb_create(World, [width |-> width, bpp |-> bpp,
                                          height |-> height], fail)} :
         Commit(r.w, [op |-> "dumb_create",
                      obj |-> IF r.ret = "0" THEN r.w.handles[r.out.handle] ELSE NoObj,
                      ret |-> r.ret,
                      in |-> [width |-> width, bpp |-> bpp, height |-> height],
                      out |-> r.out, pre |-> World])

\* DRM_IOCTL_MODE_MAP_DUMB on any handle value, registered or not
GemMmap ==
  \E h \in HandleArgs, allocOk \in BOOLEAN, offOk \in BOOLEAN :
    /\ mutex = 0
    /\ \E r \in {evdi_gem_mmap(World, h, allocOk, offOk)} :
         Commit(r.w, [op |-> "mmap", obj |-> drm_gem_object_lookup(World, h),
                      ret |-> r.ret, in |-> h, out |-> << >>, pre |-> World])

\* a kernel user of a live object maps it
Vmap ==
  \E o \in Objs, allocOk \in BOOLEAN, mapOk \in BOOLEAN :
    /\ HasHandle(o)
    /\ objs[o].kmapOut < MaxMaps
    /\ \E r \in {evdi_gem_vmap(World, o, allocOk, mapOk)} :
         Commit(r.w, [op |-> "vmap", obj |-> o, ret |-> r.ret,
                      in |-> << >>, out |-> << >>, pre |-> World])

\* a kernel user of a live object unmaps it
Vunmap ==
  \E o \in Objs :
    /\ HasHandle(o)
    /\ \E w \in {evdi_gem_vunmap(World, o)} :
         Commit(w, [op |-> "vunmap", obj |-> o, ret |-> "0",
                    in |-> << >>, out |-> << >>, pre |-> World])

\* a page fault in a user mapping of a live object
Fault ==
  \E o \in Objs, ins \in InsertResults :
    /\ HasHandle(o)
    /\ \E r \in {evdi_gem_fault(World, o, ins)} :
         Commit(r.w, [op |-> "fault", obj |-> o, ret |-> r.ret,
                      in |-> ins, out |-> << >>, pre |-> World])

\* the PRIME core imports a dma-buf; on success it publishes the reference
\* evdi_gem_prime_import returned as a handle of the importing file.
PrimeImport ==
  \E fail \in ImportFailPoints :
    /\ FreeSlots(World) # {}
    /\ \E r \in {evdi_gem_prime_import(World, fail)} :
         LET w == IF r.ret = "0"
                  THEN [r.w EXCEPT !.handles[Min(FreeHandles(r.w))] = r.obj,
                                   !.objs[r.obj].handle_count = @ + 1]
                  ELSE r.w
         IN  Commit(w, [op |-> "import", obj |-> r.obj, ret |-> r.ret,
                        in |-> fail, out |-> << >>, pre |-> World])

\* the handle table drops a handle (release_handle): the handle's reference
\* goes, and with the last reference the object is torn down.
GemClose ==
  \E h \in Handles :
    /\ handles[h] # NoObj
    /\ \E w \in {drm_gem_object_unreference(
                   [World EXCEPT !.handles[h] = NoObj,
                                 !.objs[handles[h]].handle_count = @ - 1],
                   handles[h])} :
         Commit(w, [op |-> "close", obj |-> handles[h], ret |-> "0",
                    in |-> h, out |-> << >>, pre |-> World])

Next ==
  \/ DumbCreate
  \/ GemMmap
  \/ Vmap
  \/ Vunmap
  \/ Fault
  \/ PrimeImport
  \/ GemClose

Spec == Init /\ [][Next]_vars


(* ----------------------- interleaved specification --------------------- *)
(* Execution contexts run evdi_gem_mmap and evdi_gem_vmap one shared-memory *)
(* access at a time.  evdi_gem_mmap takes dev->struct_mutex; evdi_gem_vmap *)
(* takes no lock.  The object exists, with its handle, from the start.     *)

\* the state after one successful creation or one successful import
Created == evdi_gem_create(EmptyWorld, "none").w
Imported ==
  LET r == evdi_gem_prime_import(EmptyWorld, "none")
  IN  [r.w EXCEPT !.handles[Min(FreeHandles(r.w))] = r.obj,
                  !.objs[r.obj].handle_count = @ + 1]

InitConc ==
  /\ \E w \in {Created, Imported} :
       /\ objs = w.objs
       /\ handles = w.handles
       /\ foreign = w.foreign
  /\ calls = << >>
  /\ last = [op |-> "none", obj |-> NoObj, ret |-> "0", in |-> << >>,
             out |-> << >>, pre |-> EmptyWorld]
  /\ pc = [c \in Ctx |-> "idle"]
  /\ loc = [c \in Ctx |-> IdleLoc]
  /\ mutex = 0

Goto(c, label) == pc' = [pc EXCEPT ![c] = label]

\* where evdi_gem_get_pages returns to
AfterGetPages(caller, ret) ==
  IF caller = "mmap"
  THEN (IF ret = "0" THEN "m_offset" ELSE "m_out")
  ELSE (IF ret = "0" THEN "v_map" ELSE "idle")

\* contexts inside evdi_gem_vmap on object o
Mapping(o) ==
  {c \in Ctx : pc[c] # "idle" /\ loc[c].caller = "vmap" /\ loc[c].obj = o}

\* evdi_gem_mmap: mutex_lock(&dev->struct_mutex)
MmapLock(c) ==
  \E h \in HandleArgs :
    /\ pc[c] = "idle"
    /\ mutex = 0
    /\ mutex' = c
    /\ loc' = [loc EXCEPT ![c] = [IdleLoc EXCEPT !.caller = "mmap", !.handle = h]]
    /\ Goto(c, "m_lookup")
    /\ UNCHANGED <<objs, handles, foreign, calls, last>>

\* a lookup that hands the object out without taking a reference
MmapLookup_borrows_nothing(c) ==
  /\ pc[c] = "m_lookup"
  /\ LET o == drm_gem_object_lookup(World, loc[c].handle)
     IN  IF o = NoObj
         THEN /\ loc' = [loc EXCEPT ![c].ret = "-ENOENT"]
              /\ Goto(c, "m_unlock")
         ELSE /\ loc' = [loc EXCEPT ![c].obj = o]
              /\ Goto(c, "gp_check")
  /\ UNCHANGED <<objs, handles, foreign, calls, last, mutex>>

\* evdi_gem_mmap: drm_gem_object_lookup and the test of its result
MmapLookup(c) ==
  /\ pc[c] = "m_lookup"
  /\ LET o == drm_gem_object_lookup(World, loc[c].handle)
     IN  IF o = NoObj
         THEN /\ loc' = [loc EXCEPT ![c].ret = "-ENOENT"]
              /\ Goto(c, "m_unlock")
              /\ UNCHANGED objs
         ELSE /\ objs' = [objs EXCEPT ![o].refcount = @ + 1]
              /\ loc' = [loc EXCEPT ![c].obj = o]
              /\ Goto(c, "gp_check")
  /\ UNCHANGED <<handles, foreign, calls, last, mutex>>

\* evdi_gem_get_pages: if (obj->pages) return 0
GetPagesCheck(c) ==
  /\ pc[c] = "gp_check"
  /\ IF objs[loc[c].obj].pages # "NULL"
     THEN /\ loc' = [loc EXCEPT ![c].ret = "0"]
          /\ Goto(c, AfterGetPages(loc[c].caller, "0"))
     ELSE /\ Goto(c, "gp_alloc")
          /\ UNCHANGED loc
  /\ UNCHANGED <<objs, handles, foreign, calls, last, mutex>>

\* evdi_gem_get_pages: pages = drm_gem_get_pages(...) and the IS_ERR test
GetPagesAlloc(c) ==
  \E allocOk \in BOOLEAN :
    /\ pc[c] = "gp_alloc"
    /\ IF allocOk
       THEN /\ objs' = [objs EXCEPT ![loc[c].obj].pagesOut = @ + 1]
            /\ loc' = [loc EXCEPT ![c].pages = "shmem"]
            /\ Goto(c, "gp_assign")
       ELSE /\ loc' = [loc EXCEPT ![c].ret = "-ENOMEM"]
            /\ Goto(c, AfterGetPages(loc[c].caller, "-ENOMEM"))
            /\ UNCHANGED objs
    /\ UNCHANGED <<handles, foreign, calls, last, mutex>>

\* evdi_gem_get_pages: obj->pages = pages; return 0
GetPagesAssign(c) ==
  /\ pc[c] = "gp_assign"
  /\ objs' = [objs EXCEPT ![loc[c].obj].pages = loc[c].pages]
  /\ loc' = [loc EXCEPT ![c].ret = "0"]
  /\ Goto(c, AfterGetPages(loc[c].caller, "0"))
  /\ UNCHANGED <<handles, foreign, calls, last, mutex>>

\* evdi_gem_mmap: drm_gem_create_mmap_offset
MmapOffset(c) ==
  \E offOk \in BOOLEAN :
    /\ pc[c] = "m_offset"
    /\ objs' = [objs EXCEPT ![loc[c].obj].vma_node = @ \/ offOk]
    /\ loc' = [loc EXCEPT ![c].ret = IF offOk THEN "0" ELSE "-ENOSPC"]
    /\ Goto(c, "m_out")
    /\ UNCHANGED <<handles, foreign, calls, last, mutex>>

\* evdi_gem_mmap, label out: drm_gem_object_unreference
MmapOut(c) ==
  /\ pc[c] = "m_out"
  /\ LET w == drm_gem_object_unreference(World, loc[c].obj)
     IN  /\ objs' = w.objs
         /\ foreign' = w.foreign
  /\ Goto(c, "m_unlock")
  /\ UNCHANGED <<handles, calls, last, loc, mutex>>

\* evdi_gem_mmap, label unlock: mutex_unlock and return
MmapUnlock(c) ==
  /\ pc[c] = "m_unlock"
  /\ mutex' = 0
  /\ loc' = [loc EXCEPT ![c] = [IdleLoc EXCEPT !.ret = loc[c].ret]]
  /\ Goto(c, "idle")
  /\ UNCHANGED <<objs, handles, foreign, calls, last>>

\* evdi_gem_vmap: entry and the test of import_attach
VmapEnter(c) ==
  \E o \in Objs :
    /\ pc[c] = "idle"
    /\ HasHandle(o)
    /\ objs[o].kmapOut + Cardinality(Mapping(o)) < MaxMaps
    /\ loc' = [loc EXCEPT ![c] = [IdleLoc EXCEPT !.caller = "vmap", !.obj = o]]
    /\ Goto(c, IF objs[o].import_attach THEN "v_dmabuf" ELSE "gp_check")
    /\ UNCHANGED <<objs, handles, foreign, calls, last, mutex>>

\* evdi_gem_vmap: obj->vmapping = vmap(obj->pages, ...) and its test
VmapMap(c) ==
  \E mapOk \in BOOLEAN :
    /\ pc[c] = "v_map"
    /\ objs' = [objs EXCEPT
                  ![loc[c].obj].vmapping = IF mapOk THEN "addr" ELSE "NULL",
                  ![loc[c].obj].kmapOut = IF mapOk THEN @ + 1 ELSE @]
    /\ loc' = [loc EXCEPT ![c] = [IdleLoc EXCEPT !.ret = IF mapOk THEN "0" ELSE "-ENOMEM"]]
    /\ Goto(c, "idle")
    /\ UNCHANGED <<handles, foreign, calls, last, mutex>>

\* evdi_gem_vmap: obj->vmapping = dma_buf_vmap(...) and its test
VmapDmabuf(c) ==
  \E mapOk \in BOOLEAN :
    /\ pc[c] = "v_dmabuf"
    /\ objs' = [objs EXCEPT
                  ![loc[c].obj].vmapping = IF mapOk THEN "addr" ELSE "NULL",
                  ![loc[c].obj].kmapOut = IF mapOk THEN @ + 1 ELSE @]
    /\ loc' = [loc EXCEPT ![c] = [IdleLoc EXCEPT !.ret = IF mapOk THEN "0" ELSE "-ENOMEM"]]
    /\ Goto(c, "idle")
    /\ UNCHANGED <<handles, foreign, calls, last, mutex>>

NextConc ==
  \E c \in Ctx :
    \/ MmapLock(c)
    \/ MmapLookup(c)
    \/ GetPagesCheck(c)
    \/ GetPagesAlloc(c)
    \/ GetPagesAssign(c)
    \/ MmapOffset(c)
    \/ MmapOut(c)
    \/ MmapUnlock(c)
    \/ VmapEnter(c)
    \/ VmapMap(c)
    \/ VmapDmabuf(c)

SpecConc == InitConc /\ [][NextConc]_vars

(* ------------------- interleaved reference counting -------------------- *)
(* Contexts run evdi_gem_create, evdi_gem_mmap and the release of a handle *)
(* one step at a time.  Reference counts are krefs: each get and put is    *)
(* one atomic step, and the put that reaches zero runs the free callback.  *)

\* the driver state a step leaves
Store(w) ==
  /\ objs' = w.objs
  /\ handles' = w.handles
  /\ foreign' = w.foreign
  /\ UNCHANGED <<calls, last>>

InitRef ==
  /\ \E w \in {EmptyWorld, Created, Imported} :
       /\ objs = w.objs
       /\ handles = w.handles
       /\ foreign = w.foreign
  /\ calls = << >>
  /\ last = [op |-> "none", obj |-> NoObj, ret |-> "0", in |-> << >>,
             out |-> << >>, pre |-> EmptyWorld]
  /\ pc = [c \in Ctx |-> "idle"]
  /\ loc = [c \in Ctx |-> IdleLoc]
  /\ mutex = 0

\* evdi_gem_create: size rounding and evdi_gem_alloc_object
CreateAlloc(c) ==
  \E fail \in {"none", "kzalloc", "init"} :
    /\ pc[c] = "idle"
    /\ FreeSlots(World) # {}
    /\ \E a \in {evdi_gem_alloc_object(World, fail)} :
         /\ Store(a.w)
         /\ IF a.obj = NoObj
            THEN /\ loc' = [loc EXCEPT ![c] = [IdleLoc EXCEPT !.ret = "-ENOMEM"]]
                 /\ Goto(c, "idle")
            ELSE /\ loc' = [loc EXCEPT ![c] = [IdleLoc EXCEPT !.caller = "create",
                                                              !.obj = a.obj]]
                 /\ Goto(c, "c_handle")
    /\ UNCHANGED mutex

\* evdi_gem_create: drm_gem_handle_create and its error path
CreateHandle(c) ==
  \E ok \in BOOLEAN :
    /\ pc[c] = "c_handle"
    /\ IF ok /\ FreeHandles(World) # {}
       THEN /\ Store([World EXCEPT
                        !.handles[Min(FreeHandles(World))] = loc[c].obj,
                        !.objs[loc[c].obj].handle_count = @ + 1,
                        !.objs[loc[c].obj].refcount = @ + 1])
            /\ loc' = [loc EXCEPT ![c].handle = Min(FreeHandles(World))]
            /\ Goto(c, "c_unref")
       ELSE /\ Store([World EXCEPT !.objs[loc[c].obj] = BlankObj])
            /\ loc' = [loc EXCEPT ![c] = [IdleLoc EXCEPT !.ret = "-ENOMEM"]]
            /\ Goto(c, "idle")
    /\ UNCHANGED mutex

\* evdi_gem_create: drm_gem_object_unreference, *handle_p = handle, return 0
CreateUnref(c) ==
  /\ pc[c] = "c_unref"
  /\ Store(drm_gem_object_unreference(World, loc[c].obj))
  /\ loc' = [loc EXCEPT ![c] = IdleLoc]
  /\ Goto(c, "idle")
  /\ UNCHANGED mutex

\* release of a handle: the handle leaves the table
CloseDelete(c) ==
  \E h \in Handles :
    /\ pc[c] = "idle"
    /\ handles[h] # NoObj
    /\ Store([World EXCEPT !.handles[h] = NoObj,
                           !.objs[handles[h]].handle_count = @ - 1])
    /\ loc' = [loc EXCEPT ![c] = [IdleLoc EXCEPT !.caller = "close",
                                                 !.handle = h,
                                                 !.obj = handles[h]]]
    /\ Goto(c, "h_unref")
    /\ UNCHANGED mutex

\* release of a handle: the reference the handle held is dropped
CloseUnref(c) ==
  /\ pc[c] = "h_unref"
  /\ Store(drm_gem_object_unreference(World, loc[c].obj))
  /\ loc' = [loc EXCEPT ![c] = IdleLoc]
  /\ Goto(c, "idle")
  /\ UNCHANGED mutex

NextRef ==
  \E c \in Ctx :
    \/ CreateAlloc(c)
    \/ CreateHandle(c)
    \/ CreateUnref(c)
    \/ MmapLock(c)
    \/ MmapLookup(c)
    \/ GetPagesCheck(c)
    \/ GetPagesAlloc(c)
    \/ GetPagesAssign(c)
    \/ MmapOffset(c)
    \/ MmapOut(c)
    \/ MmapUnlock(c)
    \/ CloseDelete(c)
    \/ CloseUnref(c)

SpecRef == InitRef /\ [][NextRef]_vars

(* ------------------------ interleaved page faults ---------------------- *)
(* Contexts run evdi_gem_fault one memory access at a time, against whole  *)
(* calls of evdi_gem_vmap and evdi_gem_vunmap and the release of the last  *)
(* handle.  None of them takes a lock.  The object starts with its pages   *)
(* materialized by a successful evdi_gem_mmap, or imported.                *)

Mmapped == evdi_gem_mmap(Created, Min(Handles), TRUE, TRUE).w

InitFault ==
  /\ \E w \in {Mmapped, Imported} :
       /\ objs = w.objs
       /\ handles = w.handles
       /\ foreign = w.foreign
  /\ calls = << >>
  /\ last = [op |-> "none", obj |-> NoObj, ret |-> "0", in |-> << >>,
             out |-> << >>, pre |-> EmptyWorld]
  /\ pc = [c \in Ctx |-> "idle"]
  /\ loc = [c \in Ctx |-> IdleLoc]
  /\ mutex = 0

\* contexts inside evdi_gem_fault on object o
Faulting(o) ==
  {c \in Ctx : pc[c] # "idle" /\ loc[c].caller = "fault" /\ loc[c].obj = o}

\* the switch on the result of vm_insert_page
FaultCode(ins) ==
  CASE ins \in {"-EAGAIN", "0", "-ERESTARTSYS"} -> "VM_FAULT_NOPAGE"
    [] ins = "-ENOMEM" -> "VM_FAULT_OOM"
    [] OTHER -> "VM_FAULT_SIGBUS"

\* evdi_gem_fault: entry, obj = to_evdi_bo(vma->vm_private_data); the
\* faulting mapping holds a reference, so the object has not been torn down
FaultEnter(c) ==
  \E o \in Objs :
    /\ pc[c] = "idle"
    /\ objs[o].base
    /\ objs[o].teardowns = 0
    /\ loc' = [loc EXCEPT ![c] = [IdleLoc EXCEPT !.caller = "fault", !.obj = o]]
    /\ Goto(c, "f_check")
    /\ UNCHANGED <<objs, handles, foreign, calls, last, mutex>>

\* evdi_gem_fault: if (!obj->pages) return VM_FAULT_SIGBUS
FaultCheck(c) ==
  /\ pc[c] = "f_check"
  /\ IF objs[loc[c].obj].pages = "NULL"
     THEN /\ loc' = [loc EXCEPT ![c] = [IdleLoc EXCEPT !.ret = "VM_FAULT_SIGBUS"]]
          /\ Goto(c, "idle")
     ELSE /\ Goto(c, "f_read")
          /\ UNCHANGED loc
  /\ UNCHANGED <<objs, handles, foreign, calls, last, mutex>>

\* evdi_gem_fault: page = obj->pages[page_offset].  loc.pages holds the
\* local variable page.  When the array has been released since the test,
\* the read is of a null pointer or of the freed array, as the build has it.
FaultRead(c) ==
  /\ pc[c] = "f_read"
  /\ \E got \in (IF objs[loc[c].obj].pages # "NULL"
                 THEN {"page"}
                 ELSE {"null_deref", "stale_entry"}) :
       loc' = [loc EXCEPT ![c].pages = got]
  /\ Goto(c, "f_insert")
  /\ UNCHANGED <<objs, handles, foreign, calls, last, mutex>>

\* evdi_gem_fault: vm_insert_page and the switch on its result
FaultInsert(c) ==
  \E ins \in InsertResults :
    /\ pc[c] = "f_insert"
    /\ loc' = [loc EXCEPT ![c] = [IdleLoc EXCEPT !.ret = FaultCode(ins)]]
    /\ Goto(c, "idle")
    /\ UNCHANGED <<objs, handles, foreign, calls, last, mutex>>

\* a whole call of evdi_gem_vmap
VmapCall ==
  \E o \in Objs, allocOk \in BOOLEAN, mapOk \in BOOLEAN :
    /\ HasHandle(o)
    /\ objs[o].kmapOut < MaxMaps
    /\ Store(evdi_gem_vmap(World, o, allocOk, mapOk).w)
    /\ UNCHANGED <<pc, loc, mutex>>

\* a whole call of evdi_gem_vunmap
VunmapCall ==
  \E o \in Objs :
    /\ HasHandle(o)
    /\ Store(evdi_gem_vunmap(World, o))
    /\ UNCHANGED <<pc, loc, mutex>>

\* release of a handle; while a fault is in flight its mapping holds a
\* reference, so the object is not torn down under it
LastClose ==
  \E h \in Handles :
    /\ handles[h] # NoObj
    /\ Faulting(handles[h]) = {}
    /\ Store(drm_gem_object_unreference(
               [World EXCEPT !.handles[h] = NoObj,
                             !.objs[handles[h]].handle_count = @ - 1],
               handles[h]))
    /\ UNCHANGED <<pc, loc, mutex>>

NextFault ==
  \/ VmapCall
  \/ VunmapCall
  \/ LastClose
  \/ \E c \in Ctx :
       \/ FaultEnter(c)
       \/ FaultCheck(c)
       \/ FaultRead(c)
       \/ FaultInsert(c)

SpecFault == InitFault /\ [][NextFault]_vars

(* ------------------------------- claims -------------------------------- *)

\* how often the most recent handler invoked primitive prim
Count(prim) == Cardinality({i \in 1..Len(calls) : calls[i][1] = prim})
Called(prim) == Count(prim) > 0

\* the object the most recent handler acted on, before and after
Before == last.pre.objs[last.obj]
After == objs[last.obj]

\* C1 (as claimed): once final teardown has run on an object, no page array
\* got from the page allocator for it and no kernel mapping established for
\* it is still outstanding.
C1_NoLeakAfterTeardown ==
  \A o \in Objs :
    objs[o].teardowns > 0 => objs[o].pagesOut = 0 /\ objs[o].kmapOut = 0

\* C2 (as claimed): however two contexts interleave their calls of get_pages
\* on one object, the page allocator hands out at most one page array for
\* it: a caller that finds the array populated does not allocate.
C2_AllocatedOnce ==
  \A o \in Objs : objs[o].pagesOut <= 1

\* C3: get_pages on an object whose page array is present succeeds, does
\* not call the page allocator and leaves the page array as it was; when the
\* allocator fails the error is returned and the page array stays absent.
\* get_pages is reached from mmap, and from vmap on a local object; it has
\* succeeded exactly when the caller went on to its next primitive.
C3_GetPagesIdempotent ==
  (/\ last.op \in {"mmap", "vmap"}
   /\ last.obj # NoObj
   /\ ~(last.op = "vmap" /\ Before.import_attach))
  => LET went_on == Called("drm_gem_create_mmap_offset") \/ Called("vmap")
     IN  /\ Before.pages # "NULL" =>
               /\ ~Called("drm_gem_get_pages")
               /\ went_on
               /\ After.pages = Before.pages
               /\ After.pagesOut = Before.pagesOut
         /\ (Before.pages = "NULL" /\ ~went_on) =>
               /\ Count("drm_gem_get_pages") = 1
               /\ last.ret = "-ENOMEM"
               /\ After.pages = "NULL"
               /\ After.pagesOut = Before.pagesOut
         /\ (Before.pages = "NULL" /\ went_on) =>
               /\ Count("drm_gem_get_pages") = 1
               /\ After.pagesOut = Before.pagesOut + 1

\* C3 witness: a second mmap of an object whose pages the first one got
C3_Witness ==
  /\ last.op = "mmap"
  /\ last.obj # NoObj
  /\ Before.pages = "shmem"
  /\ last.ret = "0"
  /\ After.pages = "shmem"

\* the state unmap_kernel leaves an object in
Unmapped(obj) ==
  obj.vmapping = "NULL" /\ (obj.import_attach \/ obj.pages = "NULL")

\* C4 (as claimed): an unmap_kernel of an object that is already unmapped
\* hands no release primitive an absent mapping or an absent page array,
\* and leaves the object as it was.
C4_SecondUnmapIsNoOp ==
  (last.op = "vunmap" /\ Unmapped(Before))
  => /\ \A i \in 1..Len(calls) : calls[i][2] # "NULL"
     /\ objs = last.pre.objs

\* C5 (as claimed): a failed import has released everything it acquired:
\* the device / dma-buf ledger is back where it was, no buffer object it
\* constructed is left, nothing was released twice, and neither the page
\* allocator's free nor a kernel unmap was invoked.
C5_ImportUnwindComplete ==
  (last.op = "import" /\ last.ret # "0")
  => /\ foreign = last.pre.foreign
     /\ objs = last.pre.objs
     /\ \A p \in {"put_device", "dma_buf_detach", "dma_buf_put",
                  "dma_buf_unmap_attachment", "kfree"} : Count(p) <= 1
     /\ ~Called("drm_gem_put_pages")
     /\ ~Called("vunmap")
     /\ ~Called("dma_buf_vunmap")

\* ceil(bpp / 8) as a number, with no wrap-around
ExactCeilDiv8(bpp) ==
  AddSmall(DivSmall(bpp, 8), IF DivRem(bpp, 8, 1) = 0 THEN 0 ELSE 1)

\* C6 (as claimed): pitch = width * ceil(bpp / 8) and size = pitch * height,
\* as exact integers.
C6_PitchSizeExact ==
  last.op = "dumb_create"
  => /\ Widen(last.out.pitch, 8) = Mul(last.in.width, ExactCeilDiv8(last.in.bpp), 8)
     /\ last.out.size = Mul(last.out.pitch, last.in.height, 8)

\* C7: between handlers, an object made by create_and_register holds exactly
\* one reference per live handle.
C7_RefcountEqualsHandles ==
  \A o \in Objs :
    (objs[o].mem /\ ~objs[o].sg)
    => /\ objs[o].refcount = objs[o].handle_count
       /\ objs[o].handle_count = Cardinality({h \in Handles : handles[h] = o})

\* C7 witness: a creation that succeeded
C7_Witness ==
  /\ last.op = "dumb_create"
  /\ last.ret = "0"
  /\ handles[last.out.handle] = last.obj
  /\ After.refcount = 1
  /\ Count("drm_gem_object_unreference") = 1

\* C8: prepare_user_mmap leaves the reference count as it found it: after a
\* successful lookup the borrowed reference is dropped exactly once on every
\* outcome; on an invalid handle it returns -ENOENT, drops nothing and
\* changes no object.
C8_MmapKeepsRefcount ==
  last.op = "mmap"
  => IF last.obj = NoObj
     THEN /\ last.ret = "-ENOENT"
          /\ ~Called("drm_gem_object_unreference")
          /\ objs = last.pre.objs
     ELSE /\ After.refcount = Before.refcount
          /\ Count("drm_gem_object_unreference") = 1
          /\ last.ret \in {"0", "-ENOMEM", "-ENOSPC"}

\* C8 witness: page acquisition failed after a successful lookup
C8_Witness ==
  /\ last.op = "mmap"
  /\ last.obj # NoObj
  /\ last.ret = "-ENOMEM"
  /\ After.refcount = Before.refcount

\* C9 (as claimed): as C9_FaultOutcome, but with insertion success reported
\* as an outcome of its own, distinct from the retry outcome.
C9_SuccessDistinctFromRetry ==
  last.op = "fault"
  => IF Before.pages = "NULL"
     THEN last.ret = "VM_FAULT_SIGBUS" /\ ~Called("vm_insert_page")
     ELSE /\ last.in = "0" => last.ret \notin {"VM_FAULT_NOPAGE", "VM_FAULT_OOM",
                                               "VM_FAULT_SIGBUS"}
          /\ last.in \in {"-EAGAIN", "-ERESTARTSYS"} => last.ret = "VM_FAULT_NOPAGE"
          /\ last.in = "-ENOMEM" => last.ret = "VM_FAULT_OOM"
          /\ last.in \in {"-EFAULT", "-EBUSY"} => last.ret = "VM_FAULT_SIGBUS"

\* C9 (amended): the outcome is VM_FAULT_SIGBUS with no insertion attempted
\* when the page array is absent; otherwise one insertion is attempted and
\* the outcome is VM_FAULT_NOPAGE on success as on a try-again or interrupted
\* result, VM_FAULT_OOM on resource exhaustion, VM_FAULT_SIGBUS on any other
\* failure.
C9_FaultOutcome ==
  last.op = "fault"
  => IF Before.pages = "NULL"
     THEN last.ret = "VM_FAULT_SIGBUS" /\ ~Called("vm_insert_page")
     ELSE /\ Count("vm_insert_page") = 1
          /\ last.in \in {"0", "-EAGAIN", "-ERESTARTSYS"} => last.ret = "VM_FAULT_NOPAGE"
          /\ last.in = "-ENOMEM" => last.ret = "VM_FAULT_OOM"
          /\ last.in \in {"-EFAULT", "-EBUSY"} => last.ret = "VM_FAULT_SIGBUS"

\* C9 witness: an interrupted insertion into an object whose pages are there
C9_Witness ==
  /\ last.op = "fault"
  /\ Before.pages # "NULL"
  /\ last.in = "-ERESTARTSYS"
  /\ last.ret = "VM_FAULT_NOPAGE"

\* C10: no handler run on an imported object asks the page allocator for
\* pages or hands pages back to it; the local page-reference array is freed
\* by final teardown, once, and by nothing else.
C10_ImportedPagesStayForeign ==
  /\ \A o \in Objs :
       objs[o].import_attach
       => /\ objs[o].pagesOut = 0
          /\ objs[o].teardowns <= 1
          /\ objs[o].viewOut = (IF objs[o].teardowns = 0 THEN 1 ELSE 0)
  /\ (last.obj # NoObj /\ After.import_attach)
     => /\ ~Called("drm_gem_get_pages")
        /\ ~Called("drm_gem_put_pages")
        /\ Count("drm_free_large") = (IF last.op = "close" THEN 1 ELSE 0)

\* C10 witness: teardown of an imported object that was kernel-mapped
C10_Witness ==
  /\ last.op = "close"
  /\ After.import_attach
  /\ Before.vmapping = "addr"
  /\ After.teardowns = 1
  /\ After.pages = "NULL"


(* --------------------- claims on teardown and unwind ------------------- *)

\* positions in the most recent handler's call record of the primitives in S
Idx(S) == {i \in 1..Len(calls) : calls[i][1] \in S}
\* every call of a primitive in A comes before every call of one in B
Precede(A, B) == \A i \in Idx(A), j \in Idx(B) : i < j

KernelUnmap == {"vunmap", "dma_buf_vunmap"}
ImportRelease == {"dma_buf_unmap_attachment", "dma_buf_detach", "dma_buf_put",
                  "put_device"}
PageRelease == {"drm_gem_put_pages", "drm_free_large"}
Token == {"drm_gem_free_mmap_offset"}

\* the most recent handler dropped the last reference and tore the object down
Torn ==
  /\ last.op = "close"
  /\ After.teardowns = Before.teardowns + 1

\* teardown reached its third step, put_pages on pages still present
\* (for a local object with a live mapping the pages go in the first step)
ThirdStepRan ==
  \/ Before.import_attach /\ Called("drm_free_large")
  \/ ~Before.import_attach /\ Before.vmapping = "NULL" /\ Called("drm_gem_put_pages")

\* the four steps of teardown come in order, each when its condition holds
TeardownOrder ==
  /\ (Idx(KernelUnmap) # {}) = (Before.vmapping # "NULL")
  /\ (Idx(ImportRelease) # {}) = Before.import_attach
  /\ (Idx(PageRelease) # {}) = (Before.pages # "NULL")
  /\ Precede(KernelUnmap, ImportRelease \cup PageRelease \cup Token)
  /\ Before.import_attach => Precede(ImportRelease, PageRelease)
  /\ Precede(ImportRelease \cup PageRelease, Token)
  /\ Count("drm_gem_free_mmap_offset") = 1
  /\ calls[Len(calls)][1] = "drm_gem_free_mmap_offset"

\* C12 (as claimed, in the part the state can tell): teardown takes its
\* steps in order, and its third step finds pages only on an object that is
\* not imported.
C12_ThirdStepOnlyLocal ==
  Torn => TeardownOrder /\ (ThirdStepRan => ~Before.import_attach)

\* C12 (amended): teardown takes its steps in the order (1) unmap_kernel if
\* a kernel mapping is live, (2) release of the import if imported,
\* (3) put_pages if pages are still present, (4) release of the mmap offset
\* token, always last; the third step also runs for every imported object.
C12_TeardownOrder ==
  Torn => TeardownOrder /\ (Before.import_attach => ThirdStepRan)

\* C12 witness: teardown of a kernel-mapped local object
C12_Witness ==
  /\ Torn
  /\ ~Before.import_attach
  /\ Before.vmapping = "addr"
  /\ Before.pages = "shmem"
  /\ Len(calls) = 3

\* C13 (as claimed): teardown of an imported object releases the mapping,
\* then the page array, then the import relationship.
C13_PagesBeforeImportRelease ==
  (Torn /\ Before.import_attach)
  => /\ Precede(KernelUnmap, PageRelease)
     /\ Precede(PageRelease, ImportRelease)

\* C13 (amended): teardown of an imported object releases the kernel mapping
\* if one is live, then the import relationship (scatter-gather mapping,
\* attachment, buffer reference, device reference), and only then the local
\* page-reference array.
C13_ImportReleaseBeforePages ==
  (Torn /\ Before.import_attach)
  => calls = (IF Before.vmapping # "NULL"
              THEN << <<"dma_buf_vunmap", "ptr">> >> ELSE << >>)
             \o << <<"dma_buf_unmap_attachment", "ptr">>,
                   <<"dma_buf_detach", "ptr">>,
                   <<"dma_buf_put", "ptr">>,
                   <<"put_device", "ptr">>,
                   <<"drm_free_large", "ptr">>,
                   <<"drm_gem_free_mmap_offset", "ptr">> >>

\* C13 witness: teardown of an imported object with a live kernel mapping
C13_Witness ==
  /\ Torn
  /\ Before.import_attach
  /\ Before.vmapping = "addr"
  /\ calls[1][1] = "dma_buf_vunmap"
  /\ foreign = ForeignZero

IsImportRelease(c) == c[1] \in ImportRelease
\* the releases of device / dma-buf resources the most recent handler made
Releases == SelectSeq(calls, IsImportRelease)

\* C14 (as claimed): a failed import unwinds in strict reverse of the order
\* of acquisition: buffer reference, attachment, device reference, with the
\* scatter-gather mapping first when it had been made.
C14_StrictReverseUnwind ==
  (last.op = "import" /\ last.ret # "0")
  => Releases =
       CASE last.in = "attach" -> << <<"put_device", "ptr">> >>
         [] last.in = "map" -> << <<"dma_buf_put", "ptr">>,
                                  <<"dma_buf_detach", "ptr">>,
                                  <<"put_device", "ptr">> >>
         [] OTHER -> << <<"dma_buf_unmap_attachment", "ptr">>,
                        <<"dma_buf_put", "ptr">>,
                        <<"dma_buf_detach", "ptr">>,
                        <<"put_device", "ptr">> >>

\* C14 (amended): a failed import unwinds in this order: the scatter-gather
\* mapping when it had been made, then the attachment is detached, then the
\* buffer reference is dropped, then the device reference is released (the
\* detach comes before the drop of the buffer reference, although the
\* attach came before the reference was taken).
C14_UnwindOrder ==
  (last.op = "import" /\ last.ret # "0")
  => Releases =
       CASE last.in = "attach" -> << <<"put_device", "ptr">> >>
         [] last.in = "map" -> << <<"dma_buf_detach", "ptr">>,
                                  <<"dma_buf_put", "ptr">>,
                                  <<"put_device", "ptr">> >>
         [] OTHER -> << <<"dma_buf_unmap_attachment", "ptr">>,
                        <<"dma_buf_detach", "ptr">>,
                        <<"dma_buf_put", "ptr">>,
                        <<"put_device", "ptr">> >>

\* C14 witness: the scatter-gather mapping failed
C14_Witness ==
  /\ last.op = "import"
  /\ last.in = "map"
  /\ last.ret = "-EIO"
  /\ Len(Releases) = 3

\* C15 (as claimed): the kernel mappings established for an object and not
\* yet unmapped are the one its vmapping field names, or none.
C15_AtMostOneMapping ==
  \A o \in Objs :
    objs[o].kmapOut = (IF objs[o].vmapping # "NULL" THEN 1 ELSE 0)

\* C16 (as claimed): when unmap_kernel or teardown has released an object's
\* pages, no kernel mapping of the object was live at the release.  (The
\* mappings outstanding after the handler are those outstanding at its
\* put_pages call: no unmap follows that call.)
C16_NoMappingWhenPagesReleased ==
  (/\ last.op \in {"vunmap", "close"}
   /\ Before.pages # "NULL"
   /\ After.pages = "NULL")
  => After.kmapOut = 0

\* every call of a primitive in S lies after the handler's mutex_lock and
\* before its mutex_unlock
UnderLock(S) ==
  \A i \in Idx(S) :
    /\ \E j \in Idx({"mutex_lock"}) : j < i
    /\ \E j \in Idx({"mutex_unlock"}) : i < j

\* C17 (as claimed): create_and_register and prepare_user_mmap take the
\* device lock once and release it once, and register handles, look handles
\* up, drop references and allocate offset tokens only while holding it.
C17_LockHeldThroughout ==
  last.op \in {"dumb_create", "mmap"}
  => /\ Count("mutex_lock") = 1
     /\ Count("mutex_unlock") = 1
     /\ UnderLock({"drm_gem_handle_create", "drm_gem_object_lookup",
                   "drm_gem_object_unreference", "drm_gem_create_mmap_offset"})

\* C19 (as claimed): after teardown the base object has been released and
\* the object's memory returned.
C19_ObjectFreedByTeardown ==
  \A o \in Objs : objs[o].teardowns > 0 => ~objs[o].base /\ ~objs[o].mem

\* C20 (as claimed): a fault on a local object for which prepare_user_mmap
\* has succeeded (it holds an offset token) and which has not been torn
\* down finds the page array present.
C20_PagesStayAfterMmap ==
  (/\ last.op = "fault"
   /\ ~Before.import_attach
   /\ Before.vma_node)
  => Called("vm_insert_page")

\* contexts holding a reference to object o that is not a handle's: the
\* creator up to its unreference, evdi_gem_mmap from its lookup to its
\* unreference, and a handle release between its two steps
Holders(o) ==
  {c \in Ctx : /\ loc[c].obj = o
               /\ pc[c] \in {"c_handle", "c_unref", "gp_check", "gp_alloc",
                             "gp_assign", "m_offset", "m_out", "h_unref"}}

\* C11: however create_and_register, prepare_user_mmap and handle release
\* interleave, an object's reference count is never negative and, while the
\* object lives, equals its handles plus the references in flight; teardown
\* has run exactly when the count is zero, at most once, and then no handle
\* names the object and no context holds a reference to it.
C11_RefcountNeverUnderflows ==
  \A o \in Objs :
    objs[o].base =>
      /\ objs[o].refcount >= 0
      /\ objs[o].teardowns <= 1
      /\ (objs[o].teardowns = 1) = (objs[o].refcount = 0)
      /\ objs[o].refcount = objs[o].handle_count + Cardinality(Holders(o))
      /\ objs[o].teardowns = 1 =>
           /\ ~HasHandle(o)
           /\ Holders(o) = {}

\* C11 witness: the handle was released while evdi_gem_mmap held its
\* borrowed reference, and the unreference of evdi_gem_mmap tore the object
\* down
C11_Witness ==
  \E c \in Ctx, o \in Objs :
    /\ pc[c] = "m_unlock"
    /\ loc[c].obj = o
    /\ objs[o].teardowns = 1
    /\ objs[o].refcount = 0
    /\ \A d \in Ctx \ {c} : pc[d] = "idle"

\* C18 (as claimed): a fault that goes on to insert a page has read it from
\* a page array that was present at the read.
C18_FaultReadsLivePages ==
  \A c \in Ctx : pc[c] = "f_insert" => loc[c].pages = "page"

=============================================================================
